---- MODULE Spec2Model ----
(***************************************************************************)
(* Model of the homework status bot (src/homework.py, src/constants.py):  *)
(* the module-level start-up code, check_tokens, and the polling loop of  *)
(* main with get_api_answer, check_response, parse_status, send_message.  *)
(*                                                                         *)
(* Conventions.  The Russian texts of the source are written here in an   *)
(* ASCII transliteration, one TLA+ string per source literal.  A Python   *)
(* dict is a TLA+ function whose DOMAIN is the set of its keys.  Python's *)
(* None is the string None_, and a JSON array used as a scalar (the       *)
(* unhashable status value) is the string UnhashableList.  An exception   *)
(* is a record [type, arg]; Str renders it as Python's str(error) does.   *)
(***************************************************************************)
EXTENDS Naturals, Integers, Sequences, FiniteSets, TLC

(***************************************************************************)
(* Bounds of the model.                                                    *)
(***************************************************************************)
MaxCycles == 3        \* poll cycles explored
MaxLen == 2           \* longest 'homeworks' list returned by the API
StartTime == 4000000  \* value of time.time() when the process starts

(***************************************************************************)
(* src/constants.py                                                        *)
(***************************************************************************)
RETRY_PERIOD == 600

DAYS_30 == 40 * 86400

HOMEWORK_VERDICTS ==
    [approved  |-> "Rabota proverena: revyueru vsyo ponravilos. Ura!",
     reviewing |-> "Rabota vzyata na proverku revyuerom.",
     rejected  |-> "Rabota proverena: u revyuera est zamechaniya."]

HTTP_OK == 200

(***************************************************************************)
(* Python values.                                                          *)
(***************************************************************************)
None_ == "None"

UnhashableList == "[]"

Falsy(v) == v \in {None_, ""}

Ok(v) == [ok |-> TRUE, value |-> v]

Raise(t, a) == [ok |-> FALSE, error |-> [type |-> t, arg |-> a]]

\* str(error): a KeyError shows the repr of its argument, the other
\* exceptions show the argument itself.
Str(error) ==
    IF error.type = "KeyError" THEN "'" \o error.arg \o "'" ELSE error.arg

(***************************************************************************)
(* The environment: credentials, what the HTTP transport can answer, what *)
(* the messaging transport can do.                                         *)
(***************************************************************************)
TokenNames == {"TELEGRAM_TOKEN", "PRACTICUM_TOKEN", "TELEGRAM_CHAT_ID"}

TokenValues == {None_, "", "secret"}

\* Work-item records that may come first in the 'homeworks' list.
FirstHomeworks ==
    { [homework_name |-> "hw1", status |-> "approved"],
      [homework_name |-> "hw1", status |-> "reviewing"],
      [homework_name |-> "hw2", status |-> "rejected"],
      [homework_name |-> "hw1", status |-> "pending"],
      [homework_name |-> "hw1", status |-> UnhashableList],
      [homework_name |-> "hw1"],
      [status |-> "approved"],
      [status |-> "pending"] }

\* Work-item records that may follow the first one.
LaterHomeworks ==
    { [homework_name |-> "hw0", status |-> "approved"],
      [homework_name |-> "hw0", status |-> "rejected"] }

RECURSIVE SeqsUpTo(_, _)
SeqsUpTo(S, n) ==
    IF n = 0 THEN { <<>> }
    ELSE LET shorter == SeqsUpTo(S, n - 1)
         IN  shorter \cup { Append(s, x) : s \in shorter, x \in S }

HomeworkLists ==
    { <<>> } \cup
    { <<h>> \o tail : h \in FirstHomeworks,
                      tail \in SeqsUpTo(LaterHomeworks, MaxLen - 1) }

PyList(items) == [type |-> "list", items |-> items]

PyDict(d) == [type |-> "dict", dict |-> d]

\* Results of homework_statuses.json().
JsonBodies ==
    { PyDict([homeworks |-> PyList(hs)]) : hs \in HomeworkLists } \cup
    { PyDict([homeworks |-> [type |-> "NoneType"]]),
      PyDict([current_date |-> StartTime]),
      PyList(<<>>),
      [type |-> "NoneType"] }

\* Outcomes of requests.get: it raises, or it returns a response with a
\* status code and a body that is JSON or is not.
TransportResults ==
    { [raised |-> TRUE] } \cup
    { [raised |-> FALSE, status_code |-> c] : c \in {500, 404} } \cup
    { [raised |-> FALSE, status_code |-> HTTP_OK, json |-> FALSE] } \cup
    { [raised |-> FALSE, status_code |-> HTTP_OK, json |-> TRUE, body |-> b] :
          b \in JsonBodies }

\* Outcomes of bot.send_message.
DeliveryResults == {"ok", "ApiTelegramException", "ConnectionError"}

(***************************************************************************)
(* check_tokens                                                            *)
(***************************************************************************)
check_tokens_NoneOnly(tokens) ==
    LET token == { key \in TokenNames : tokens[key] = None_ }
    IN  token = {}

check_tokens(tokens) ==
    LET token == { key \in TokenNames : Falsy(tokens[key]) }
    IN  token = {}

(***************************************************************************)
(* get_api_answer: r is what requests.get did.  When it raised, the local *)
(* homework_statuses was never bound and reading it raises                 *)
(* UnboundLocalError (the text is the one of Python 3.11 and later; older *)
(* interpreters word it differently).  Otherwise a status code other than *)
(* 200 raises Exception, and .json() raises when the body is not JSON.    *)
(***************************************************************************)
\* The from_date parameter of the request of line 114: the time of the call
\* minus DAYS_30; the timestamp argument of get_api_answer is not used.
from_date_FromCursor(timestamp_arg, time) == timestamp_arg - DAYS_30

from_date(timestamp_arg, time) == time - DAYS_30

get_api_answer_NoStatusCheck(r) ==
    IF r.raised
    THEN Raise("UnboundLocalError",
               "cannot access local variable 'homework_statuses' where it is not associated with a value")
    ELSE IF r.status_code # HTTP_OK
    THEN Ok(PyDict([current_date |-> StartTime]))
    ELSE IF ~r.json
    THEN Raise("JSONDecodeError", "Expecting value: line 1 column 1 (char 0)")
    ELSE Ok(r.body)

get_api_answer_IgnoresStatus(r) ==
    IF r.raised
    THEN Raise("UnboundLocalError",
               "cannot access local variable 'homework_statuses' where it is not associated with a value")
    ELSE IF r.status_code # HTTP_OK \/ ~r.json
    THEN Raise("JSONDecodeError", "Expecting value: line 1 column 1 (char 0)")
    ELSE Ok(r.body)

get_api_answer(r) ==
    IF r.raised
    THEN Raise("UnboundLocalError",
               "cannot access local variable 'homework_statuses' where it is not associated with a value")
    ELSE IF r.status_code # HTTP_OK
    THEN Raise("Exception",
               "API vozvrashchyaet kod otlichnyi ot 200: " \o ToString(r.status_code))
    ELSE IF ~r.json
    THEN Raise("JSONDecodeError", "Expecting value: line 1 column 1 (char 0)")
    ELSE Ok(r.body)

(***************************************************************************)
(* check_response                                                          *)
(***************************************************************************)
check_response_Last(response) ==
    IF response.type = "list"
    THEN Raise("TypeError", "list indices must be integers or slices, not str")
    ELSE IF response.type # "dict"
    THEN Raise("TypeError", "'" \o response.type \o "' object is not subscriptable")
    ELSE IF "homeworks" \notin DOMAIN response.dict
    THEN Raise("UnboundLocalError",
               "cannot access local variable 'homeworks_list' where it is not associated with a value")
    ELSE LET homeworks_list == response.dict.homeworks
         IN  IF homeworks_list.type # "list"
             THEN Raise("TypeError",
                        "Struktura dannykh pod klyuchom homeworks ne sootvetstvuet ozhidaniyam")
             ELSE IF homeworks_list.items = <<>>
             THEN Raise("IndexError", "list index out of range")
             ELSE Ok(homeworks_list.items[Len(homeworks_list.items)])

check_response(response) ==
    IF response.type = "list"
    THEN Raise("TypeError", "list indices must be integers or slices, not str")
    ELSE IF response.type # "dict"
    THEN Raise("TypeError", "'" \o response.type \o "' object is not subscriptable")
    ELSE IF "homeworks" \notin DOMAIN response.dict
    THEN Raise("UnboundLocalError",
               "cannot access local variable 'homeworks_list' where it is not associated with a value")
    ELSE LET homeworks_list == response.dict.homeworks
         IN  IF homeworks_list.type # "list"
             THEN Raise("TypeError",
                        "Struktura dannykh pod klyuchom homeworks ne sootvetstvuet ozhidaniyam")
             ELSE IF homeworks_list.items = <<>>
             THEN Raise("IndexError", "list index out of range")
             ELSE Ok(homeworks_list.items[1])

(***************************************************************************)
(* parse_status                                                            *)
(***************************************************************************)
Get(homework, key) ==
    IF key \in DOMAIN homework THEN homework[key] ELSE None_

parse_status_NoQuotes(homework) ==
    IF "homework_name" \notin DOMAIN homework
    THEN Raise("KeyError", "V otvete API net klyucha homework_name")
    ELSE LET homework_name == Get(homework, "homework_name")
             status_homework == Get(homework, "status")
         IN  IF status_homework = UnhashableList
             THEN Raise("TypeError", "unhashable type: 'list'")
             ELSE IF status_homework \notin DOMAIN HOMEWORK_VERDICTS
             THEN Raise("KeyError",
                        "Poyavilsya novyi nedokumentirovannyi status domashnei raboty: "
                            \o status_homework)
             ELSE LET verdict == HOMEWORK_VERDICTS[status_homework]
                  IN  Ok("Izmenilsya status proverki raboty " \o homework_name
                             \o ". " \o verdict)

parse_status_UnknownPasses(homework) ==
    IF "homework_name" \notin DOMAIN homework
    THEN Raise("KeyError", "V otvete API net klyucha homework_name")
    ELSE LET homework_name == Get(homework, "homework_name")
             status_homework == Get(homework, "status")
             verdict == IF status_homework \in DOMAIN HOMEWORK_VERDICTS
                        THEN HOMEWORK_VERDICTS[status_homework]
                        ELSE status_homework
         IN  Ok("Izmenilsya status proverki raboty \"" \o homework_name
                    \o "\". " \o verdict)

parse_status(homework) ==
    IF "homework_name" \notin DOMAIN homework
    THEN Raise("KeyError", "V otvete API net klyucha homework_name")
    ELSE LET homework_name == Get(homework, "homework_name")
             status_homework == Get(homework, "status")
         IN  IF status_homework = UnhashableList
             THEN Raise("TypeError", "unhashable type: 'list'")
             ELSE IF status_homework \notin DOMAIN HOMEWORK_VERDICTS
             THEN Raise("KeyError",
                        "Poyavilsya novyi nedokumentirovannyi status domashnei raboty: "
                            \o status_homework)
             ELSE LET verdict == HOMEWORK_VERDICTS[status_homework]
                  IN  Ok("Izmenilsya status proverki raboty \"" \o homework_name
                             \o "\". " \o verdict)

(***************************************************************************)
(* send_message: d is what bot.send_message did.  The value is the        *)
(* exception that leaves send_message, if any: every Exception is caught. *)
(***************************************************************************)
send_message_Reraises(d) ==
    IF d = "ok" THEN Ok(None_) ELSE Raise(d, "delivery failed")

send_message(d) == Ok(None_)

(***************************************************************************)
(* main, line 241: "except Exception" catches every exception the cycle   *)
(* can raise, all of them being subclasses of Exception.                   *)
(***************************************************************************)
Caught_OnlyKeyError(err) == err.type = "KeyError"

Caught(err) == TRUE

\* The text main builds in its except clause.
FaultMessage(error) == "Sboi v rabote programmy: " \o Str(error)

(***************************************************************************)
(* State.                                                                  *)
(***************************************************************************)
VARIABLES
    TOKENS,          \* the three credentials read from the environment
    pc,              \* position of the process
    now,             \* time.time()
    import_request,  \* TRUE once the module-level requests.get was issued
    timestamp,       \* main's timestamp (0 until main binds it)
    cycle,           \* number of poll cycles started
    response,        \* main's response
    homework,        \* main's homework
    message,         \* main's message
    error,           \* the exception main's except clause is handling
    cur,             \* what the current cycle did so far
    prev             \* what the previous cycle did

vars == <<TOKENS, pc, now, import_request, timestamp, cycle, response,
          homework, message, error, cur, prev>>

Unset == [unset |-> TRUE]

\* A cycle's record: the transport's answer to its fetch, the calls it made
\* in order, the send_message calls (the line of main that made the call,
\* the text, what the messaging transport did), the sleeps, and the fault
\* message built by the except clause ("" when none was built).
NoCycle == [fetch |-> Unset, calls |-> <<>>, sends |-> <<>>, sleeps |-> <<>>,
            fault |-> ""]

Init ==
    /\ TOKENS \in [TokenNames -> TokenValues]
    /\ pc = "import"
    /\ now = StartTime
    /\ import_request = FALSE
    /\ timestamp = 0
    /\ cycle = 0
    /\ response = Unset
    /\ homework = Unset
    /\ message = ""
    /\ error = Unset
    /\ cur = NoCycle
    /\ prev = NoCycle

Called(c, name) == [c EXCEPT !.calls = Append(@, name)]

(***************************************************************************)
(* Module level, lines 20-66: the module issues one request while it is   *)
(* imported; an exception of the transport there ends the process.        *)
(***************************************************************************)
ImportModule ==
    /\ pc = "import"
    /\ \E raised \in BOOLEAN :
          pc' = IF raised THEN "import_failed" ELSE "main"
    /\ import_request' = TRUE
    /\ UNCHANGED <<TOKENS, now, timestamp, cycle, response, homework,
                   message, error, cur, prev>>

(***************************************************************************)
(* main, lines 220-226: sys.exit() when check_tokens fails, otherwise the  *)
(* bot is constructed (assumed to succeed) and timestamp is bound.         *)
(***************************************************************************)
MainStart ==
    /\ pc = "main"
    /\ IF ~check_tokens(TOKENS)
       THEN /\ pc' = "exited"
            /\ UNCHANGED timestamp
       ELSE /\ pc' = "get_api_answer"
            /\ timestamp' = now
    /\ UNCHANGED <<TOKENS, now, import_request, cycle, response, homework,
                   message, error, cur, prev>>

(***************************************************************************)
(* main, line 235.                                                         *)
(***************************************************************************)
GetApiAnswer ==
    /\ pc = "get_api_answer"
    /\ cycle < MaxCycles
    /\ \E r \in TransportResults :
          LET res == get_api_answer(r)
          IN  /\ cur' = [Called(cur, "get_api_answer") EXCEPT
                            !.fetch = r @@ [from_date |-> from_date(timestamp, now)]]
              /\ IF res.ok
                 THEN /\ response' = res.value
                      /\ pc' = "check_response"
                      /\ UNCHANGED error
                 ELSE /\ error' = res.error
                      /\ pc' = IF Caught(res.error) THEN "except" ELSE "crashed"
                      /\ UNCHANGED response
    /\ cycle' = cycle + 1
    /\ UNCHANGED <<TOKENS, now, import_request, timestamp, homework, message,
                   prev>>

(***************************************************************************)
(* main, line 236.                                                         *)
(***************************************************************************)
CheckResponse ==
    /\ pc = "check_response"
    /\ LET res == check_response(response)
       IN  /\ cur' = Called(cur, "check_response")
           /\ IF res.ok
              THEN /\ homework' = res.value
                   /\ pc' = "parse_status"
                   /\ UNCHANGED error
              ELSE /\ error' = res.error
                   /\ pc' = IF Caught(res.error) THEN "except" ELSE "crashed"
                   /\ UNCHANGED homework
    /\ UNCHANGED <<TOKENS, now, import_request, timestamp, cycle, response,
                   message, prev>>

ParseStatus_ContinuesOnError ==
    /\ pc = "parse_status"
    /\ LET res == parse_status(homework)
       IN  /\ cur' = Called(cur, "parse_status")
           /\ message' = IF res.ok THEN res.value ELSE message
           /\ pc' = "send_message"
           /\ UNCHANGED error
    /\ UNCHANGED <<TOKENS, now, import_request, timestamp, cycle, response,
                   homework, prev>>

(***************************************************************************)
(* main, line 237.                                                         *)
(***************************************************************************)
ParseStatus ==
    /\ pc = "parse_status"
    /\ LET res == parse_status(homework)
       IN  /\ cur' = Called(cur, "parse_status")
           /\ IF res.ok
              THEN /\ message' = res.value
                   /\ pc' = "send_message"
                   /\ UNCHANGED error
              ELSE /\ error' = res.error
                   /\ pc' = IF Caught(res.error) THEN "except" ELSE "crashed"
                   /\ UNCHANGED message
    /\ UNCHANGED <<TOKENS, now, import_request, timestamp, cycle, response,
                   homework, prev>>

(***************************************************************************)
(* main, line 238: send_message(bot, message) inside the try block.  An   *)
(* exception leaving send_message would be caught by the except clause.   *)
(***************************************************************************)
SendStatus ==
    /\ pc = "send_message"
    /\ \E d \in DeliveryResults :
          LET res == send_message(d)
          IN  /\ cur' = [Called(cur, "send_message") EXCEPT
                            !.sends = Append(@, [line |-> 238, text |-> message,
                                                 result |-> d])]
              /\ IF res.ok
                 THEN /\ pc' = "sleep"
                      /\ UNCHANGED error
                 ELSE /\ error' = res.error
                      /\ pc' = IF Caught(res.error) THEN "except" ELSE "crashed"
    /\ UNCHANGED <<TOKENS, now, import_request, timestamp, cycle, response,
                   homework, message, prev>>

\* The end of a cycle: time.sleep(period) returns, the loop goes back to its
\* head.  The locals of the finished cycle are dead and are reset.
SleepAndLoop(period) ==
    /\ now' = now + period
    /\ prev' = [Called(cur, "sleep") EXCEPT !.sleeps = Append(@, period)]
    /\ cur' = NoCycle
    /\ response' = Unset
    /\ homework' = Unset
    /\ message' = ""
    /\ error' = Unset
    /\ pc' = "get_api_answer"

(***************************************************************************)
(* main, line 239.                                                         *)
(***************************************************************************)
SleepTry ==
    /\ pc = "sleep"
    /\ SleepAndLoop(RETRY_PERIOD)
    /\ UNCHANGED <<TOKENS, import_request, timestamp, cycle>>

ExceptSend_LogsOnly ==
    /\ pc = "except"
    /\ message' = FaultMessage(error)
    /\ cur' = [cur EXCEPT !.fault = message']
    /\ pc' = "except_sleep"
    /\ UNCHANGED <<TOKENS, now, import_request, timestamp, cycle, response,
                   homework, error, prev>>

(***************************************************************************)
(* main, lines 241-244: the except clause builds the fault message and    *)
(* sends it.  An exception leaving send_message here is not caught by     *)
(* anything and ends the process.                                          *)
(***************************************************************************)
ExceptSend ==
    /\ pc = "except"
    /\ message' = FaultMessage(error)
    /\ \E d \in DeliveryResults :
          LET res == send_message(d)
          IN  /\ cur' = [Called(cur, "send_message") EXCEPT
                            !.sends = Append(@, [line |-> 244, text |-> message',
                                                 result |-> d]),
                            !.fault = message']
              /\ pc' = IF res.ok THEN "except_sleep" ELSE "crashed"
    /\ UNCHANGED <<TOKENS, now, import_request, timestamp, cycle, response,
                   homework, error, prev>>

ExceptSleep_NoSleep ==
    /\ pc = "except_sleep"
    /\ prev' = cur
    /\ cur' = NoCycle
    /\ response' = Unset
    /\ homework' = Unset
    /\ message' = ""
    /\ error' = Unset
    /\ pc' = "get_api_answer"
    /\ UNCHANGED <<TOKENS, now, import_request, timestamp, cycle>>

(***************************************************************************)
(* main, line 245.                                                         *)
(***************************************************************************)
ExceptSleep ==
    /\ pc = "except_sleep"
    /\ SleepAndLoop(RETRY_PERIOD)
    /\ UNCHANGED <<TOKENS, import_request, timestamp, cycle>>

Next ==
    \/ ImportModule
    \/ MainStart
    \/ GetApiAnswer
    \/ CheckResponse
    \/ ParseStatus
    \/ SendStatus
    \/ SleepTry
    \/ ExceptSend
    \/ ExceptSleep

Spec == Init /\ [][Next]_vars

FairSpec == Spec /\ WF_vars(Next)

LoopPcs == {"get_api_answer", "check_response", "parse_status",
            "send_message", "sleep", "except", "except_sleep"}

TypeOK ==
    /\ pc \in {"import", "import_failed", "main", "exited", "crashed"} \cup LoopPcs
    /\ cycle \in 0..MaxCycles
    /\ import_request \in BOOLEAN
    /\ timestamp \in {0, StartTime}
    /\ now = StartTime + RETRY_PERIOD * (IF pc = "get_api_answer" /\ cycle > 0
                                         THEN cycle ELSE IF cycle > 0
                                         THEN cycle - 1 ELSE 0)

(***************************************************************************)
(* Vocabulary of the properties.                                           *)
(***************************************************************************)
Last(s) == s[Len(s)]

Vocabulary == {"approved", "reviewing", "rejected"}

StatusSends(c) == SelectSeq(c.sends, LAMBDA s : s.line = 238)

FaultSends(c) == SelectSeq(c.sends, LAMBDA s : s.line = 244)

\* The fetch f was answered with a JSON mapping whose 'homeworks' is a list.
ReturnedHomeworks(f) ==
    /\ "body" \in DOMAIN f
    /\ f.body.type = "dict"
    /\ "homeworks" \in DOMAIN f.body.dict
    /\ f.body.dict.homeworks.type = "list"

HomeworksOf(f) == f.body.dict.homeworks.items

\* The cycle c has made all its send_message calls and is about to sleep.
AboutToSleep == pc \in {"sleep", "except_sleep"}

CredentialsPresent == \A k \in TokenNames : TOKENS[k] # None_ /\ TOKENS[k] # ""

(***************************************************************************)
(* C1.  Fault dedup: when two consecutive cycles build the identical      *)
(* fault message, exactly one fault notification is sent over the two     *)
(* cycles (the second cycle does not call send_message again).            *)
(***************************************************************************)
C1_FaultDedup ==
    (AboutToSleep /\ prev.fault # "" /\ cur.fault = prev.fault)
        => Len(FaultSends(prev)) + Len(FaultSends(cur)) = 1

(***************************************************************************)
(* C2.  A response whose 'homeworks' is the empty list is benign:         *)
(* check_response raises nothing that reaches the except clause and the   *)
(* cycle makes no send_message call.                                       *)
(***************************************************************************)
C2_EmptyIsBenign ==
    (/\ cur.calls # <<>>
     /\ ReturnedHomeworks(cur.fetch)
     /\ HomeworksOf(cur.fetch) = <<>>)
        => /\ pc # "except"
           /\ cur.fault = ""
           /\ cur.sends = <<>>

(***************************************************************************)
(* C3.  A status notification is sent only when the review state has      *)
(* changed: when two consecutive cycles fetch the same first work-item    *)
(* record, the second one sends no status-change message.                 *)
(***************************************************************************)
C3_NotifyOnlyOnChange ==
    (/\ AboutToSleep
     /\ ReturnedHomeworks(prev.fetch) /\ HomeworksOf(prev.fetch) # <<>>
     /\ ReturnedHomeworks(cur.fetch) /\ HomeworksOf(cur.fetch) # <<>>
     /\ HomeworksOf(prev.fetch)[1] = HomeworksOf(cur.fetch)[1])
        => StatusSends(cur) = <<>>

(***************************************************************************)
(* C4.  No fault of a cycle ends the process: once the loop has started   *)
(* the process stays in it, whatever the fetch, the validation, the       *)
(* interpretation and the delivery did, and every cycle (below the bound  *)
(* of the model) is followed by another fetch.                             *)
(***************************************************************************)
C4_LoopStaysAlive ==
    /\ [](cycle > 0 => pc \in LoopPcs)
    /\ \A n \in 1..(MaxCycles - 1) : (cycle = n) ~> (cycle = n + 1)

C4_Witness ==
    /\ cycle = 2
    /\ prev.fault # ""
    /\ prev.sends[1].result # "ok"
    /\ pc = "check_response"

(***************************************************************************)
(* C5.  Every cycle ends with exactly one sleep of RETRY_PERIOD: no cycle *)
(* sleeps before its last step, and whenever the loop is at its head      *)
(* after a cycle, that cycle's last call was its single sleep of          *)
(* RETRY_PERIOD seconds, so that the clock advanced by RETRY_PERIOD per   *)
(* cycle.                                                                  *)
(***************************************************************************)
C5_OneSleepPerCycle ==
    /\ cur.sleeps = <<>>
    /\ "sleep" \notin { cur.calls[i] : i \in DOMAIN cur.calls }
    /\ (cycle > 0 /\ pc = "get_api_answer")
          => /\ prev.sleeps = <<RETRY_PERIOD>>
             /\ Last(prev.calls) = "sleep"
             /\ Cardinality({ i \in DOMAIN prev.calls : prev.calls[i] = "sleep" }) = 1
             /\ now = timestamp + cycle * RETRY_PERIOD
    /\ (cycle > 0 /\ pc # "get_api_answer") => cur.calls[1] = "get_api_answer"

C5_Witness ==
    /\ cycle = 2
    /\ pc = "get_api_answer"
    /\ prev.fault # ""
    /\ prev.sends[1].result = "ConnectionError"

(***************************************************************************)
(* C6.  Start-up: with a credential that is empty or absent the process   *)
(* ends in main before any cycle, request of a cycle or send_message      *)
(* call; with the three credentials present main does not exit and enters *)
(* the loop.                                                               *)
(***************************************************************************)
C6_StartupPrecondition ==
    /\ ~CredentialsPresent
          => /\ pc \in {"import", "import_failed", "main", "exited"}
             /\ cycle = 0
             /\ cur = NoCycle /\ prev = NoCycle
    /\ CredentialsPresent
          => pc \in {"import", "import_failed", "main"} \cup LoopPcs
    /\ pc = "exited" => ~check_tokens(TOKENS)
    /\ pc \in LoopPcs => check_tokens(TOKENS)

C6_Witness ==
    /\ pc = "exited"
    /\ TOKENS["TELEGRAM_TOKEN"] = "secret"
    /\ TOKENS["PRACTICUM_TOKEN"] = "secret"
    /\ TOKENS["TELEGRAM_CHAT_ID"] = ""

(***************************************************************************)
(* C7.  A failure of the messaging transport stays inside send_message:   *)
(* a cycle in which a delivery failed made that one send_message call     *)
(* only, a failed delivery of the status message does not start the       *)
(* except clause, and after it the cycle is about to sleep.                *)
(***************************************************************************)
C7_DeliveryFailureContained ==
    /\ \A c \in {cur, prev} :
          (\E i \in DOMAIN c.sends : c.sends[i].result # "ok")
              => /\ Len(c.sends) = 1
                 /\ (c.sends[1].line = 238 => c.fault = "")
    /\ (cur.sends # <<>> /\ Last(cur.sends).result # "ok")
          => /\ pc = (IF Last(cur.sends).line = 238 THEN "sleep" ELSE "except_sleep")
             /\ (Last(cur.sends).line = 238 => error = Unset)

C7_Witness ==
    /\ pc = "sleep"
    /\ cur.sends # <<>>
    /\ cur.sends[1].result = "ApiTelegramException"

(***************************************************************************)
(* C8.  End to end: a fetch answered 200 with one approved work item,     *)
(* followed by a fetch answered 500, gives exactly one send_message call  *)
(* with the status text in the first cycle, then exactly one with the     *)
(* fault text in the second, the two texts differ, and the process is     *)
(* still in the loop.                                                      *)
(***************************************************************************)
C8_EndToEnd ==
    (/\ AboutToSleep
     /\ ReturnedHomeworks(prev.fetch)
     /\ HomeworksOf(prev.fetch) = << [homework_name |-> "hw1", status |-> "approved"] >>
     /\ ~cur.fetch.raised /\ cur.fetch.status_code = 500)
        => /\ Len(prev.sends) = 1
           /\ prev.sends[1].line = 238
           /\ prev.sends[1].text =
                "Izmenilsya status proverki raboty \"hw1\". Rabota proverena: revyueru vsyo ponravilos. Ura!"
           /\ Len(cur.sends) = 1
           /\ cur.sends[1].line = 244
           /\ cur.sends[1].text =
                "Sboi v rabote programmy: API vozvrashchyaet kod otlichnyi ot 200: 500"
           /\ cur.sends[1].text # prev.sends[1].text
           /\ pc = "except_sleep"

C8_Witness ==
    /\ pc = "except_sleep"
    /\ ReturnedHomeworks(prev.fetch)
    /\ HomeworksOf(prev.fetch) = << [homework_name |-> "hw1", status |-> "approved"] >>
    /\ prev.sends[1].result = "ok"
    /\ ~cur.fetch.raised /\ cur.fetch.status_code = 500
    /\ cur.sends[1].result = "ok"

(***************************************************************************)
(* C9.  For a record with a homework_name and a status of the vocabulary  *)
(* parse_status returns the template                                       *)
(*   Izmenilsya status proverki raboty "<name>". <verdict text>           *)
(* with the verdict text of that status.                                   *)
(***************************************************************************)
C9_VerdictText(status) ==
    CASE status = "approved" -> "Rabota proverena: revyueru vsyo ponravilos. Ura!"
      [] status = "reviewing" -> "Rabota vzyata na proverku revyuerom."
      [] status = "rejected" -> "Rabota proverena: u revyuera est zamechaniya."

C9_ValidRecord(h) ==
    /\ DOMAIN h = {"homework_name", "status"}
    /\ h.status \in Vocabulary

C9_ParseStatusTemplate ==
    (/\ cur.calls # <<>>
     /\ Last(cur.calls) = "parse_status"
     /\ C9_ValidRecord(homework))
        => /\ pc = "send_message"
           /\ message = "Izmenilsya status proverki raboty \"" \o homework.homework_name
                            \o "\". " \o C9_VerdictText(homework.status)
           /\ HOMEWORK_VERDICTS[homework.status] = C9_VerdictText(homework.status)

C9_Witness ==
    /\ pc = "send_message"
    /\ homework = [homework_name |-> "hw2", status |-> "rejected"]
    /\ message = "Izmenilsya status proverki raboty \"hw2\". Rabota proverena: u revyuera est zamechaniya."

(***************************************************************************)
(* C10.  Original statement: for every record whose status is not in the  *)
(* vocabulary parse_status fails with the unknown-verdict fault.           *)
(***************************************************************************)
C10_StatusOf(h) == IF "status" \in DOMAIN h THEN h.status ELSE None_

C10_Parsed ==
    /\ cur.calls # <<>>
    /\ "parse_status" \in { cur.calls[i] : i \in DOMAIN cur.calls }

C10_UnknownVerdictFault(h) ==
    [type |-> "KeyError",
     arg |-> "Poyavilsya novyi nedokumentirovannyi status domashnei raboty: "
                 \o C10_StatusOf(h)]

C10_Original ==
    (C10_Parsed /\ C10_StatusOf(homework) \notin Vocabulary)
        => error = C10_UnknownVerdictFault(homework)

(***************************************************************************)
(* C10, amended.  For every record whose status is not in the vocabulary  *)
(* (a record with no status field included) parse_status fails and the    *)
(* cycle produces and sends no status-change message; the failure is the  *)
(* unknown-verdict fault when the record has a homework_name and its      *)
(* status is absent or hashable, the missing-name fault when it has no    *)
(* homework_name, and a TypeError when it has a homework_name and an      *)
(* unhashable status.                                                      *)
(***************************************************************************)
C10_UnknownVerdict ==
    (C10_Parsed /\ C10_StatusOf(homework) \notin Vocabulary)
        => /\ pc \in {"except", "except_sleep"}
           /\ StatusSends(cur) = <<>>
           /\ \A i \in DOMAIN cur.sends : cur.sends[i].text = cur.fault
           /\ pc = "except" => message = ""
           /\ error = IF "homework_name" \notin DOMAIN homework
                      THEN [type |-> "KeyError",
                            arg |-> "V otvete API net klyucha homework_name"]
                      ELSE IF C10_StatusOf(homework) = UnhashableList
                      THEN [type |-> "TypeError", arg |-> "unhashable type: 'list'"]
                      ELSE C10_UnknownVerdictFault(homework)

C10_Witness ==
    /\ pc = "except_sleep"
    /\ homework = [homework_name |-> "hw1", status |-> "pending"]
    /\ cur.sends[1].text =
         "Sboi v rabote programmy: 'Poyavilsya novyi nedokumentirovannyi status domashnei raboty: pending'"

(***************************************************************************)
(* C11.  For a response mapping without the 'homeworks' key                *)
(* check_response fails with the shape fault, the structural kind         *)
(* (TypeError) it raises for a malformed payload, returns no record, and  *)
(* the cycle takes the except clause.                                      *)
(***************************************************************************)
C11_LacksHomeworks(f) ==
    /\ "body" \in DOMAIN f
    /\ f.body.type = "dict"
    /\ "homeworks" \notin DOMAIN f.body.dict

C11_MissingKeyIsShapeFault ==
    (/\ C11_LacksHomeworks(cur.fetch)
     /\ "check_response" \in { cur.calls[i] : i \in DOMAIN cur.calls })
        => /\ pc \in {"except", "except_sleep"}
           /\ homework = Unset
           /\ error.type = "TypeError"

(***************************************************************************)
(* C12.  When the HTTP transport raises, get_api_answer fails with a      *)
(* connection-error fault (one that reports the failed request), distinct *)
(* from the fault of a non-200 status, returns no payload, and makes no   *)
(* second request in that cycle.                                           *)
(***************************************************************************)
C12_ConnectionFault(e) == e.type \in {"ConnectionError", "RequestException"}

C12_ConnectionErrorFault ==
    (cur.calls # <<>> /\ cur.fetch.raised)
        => /\ pc \in {"except", "except_sleep"}
           /\ response = Unset
           /\ Cardinality({ i \in DOMAIN cur.calls : cur.calls[i] = "get_api_answer" }) = 1
           /\ error.type # "Exception"
           /\ C12_ConnectionFault(error)

(***************************************************************************)
(* C13.  A status code other than 200 is a hard error of the cycle:       *)
(* get_api_answer raises the status fault, check_response and             *)
(* parse_status are not called, no status-change message is sent, and the *)
(* cycle takes the except clause.                                          *)
(***************************************************************************)
C13_Non200(f) == "status_code" \in DOMAIN f /\ f.status_code # 200

C13_Non200IsHardError ==
    (cur.calls # <<>> /\ C13_Non200(cur.fetch))
        => /\ pc \in {"except", "except_sleep"}
           /\ error = [type |-> "Exception",
                       arg |-> "API vozvrashchyaet kod otlichnyi ot 200: "
                                   \o ToString(cur.fetch.status_code)]
           /\ response = Unset /\ homework = Unset
           /\ \A i \in DOMAIN cur.calls :
                  cur.calls[i] \in {"get_api_answer", "send_message"}
           /\ StatusSends(cur) = <<>>
           /\ pc = "except_sleep" => /\ Len(cur.sends) = 1
                                     /\ cur.sends[1].line = 244

C13_Witness ==
    /\ pc = "except_sleep"
    /\ C13_Non200(cur.fetch)
    /\ cur.fetch.status_code = 404
    /\ cur.sends[1].text =
         "Sboi v rabote programmy: API vozvrashchyaet kod otlichnyi ot 200: 404"

(***************************************************************************)
(* C14.  Of a non-empty 'homeworks' list only the first element counts:   *)
(* check_response returns that element, and two consecutive cycles whose  *)
(* lists agree on the first element make the same send_message calls      *)
(* (same call site, same text), whatever the later elements are.          *)
(***************************************************************************)
C14_NonEmpty(f) == ReturnedHomeworks(f) /\ HomeworksOf(f) # <<>>

C14_Texts(c) == [i \in DOMAIN c.sends |-> <<c.sends[i].line, c.sends[i].text>>]

C14_FirstElementOnly ==
    /\ (/\ C14_NonEmpty(cur.fetch)
        /\ "check_response" \in { cur.calls[i] : i \in DOMAIN cur.calls })
          => homework = HomeworksOf(cur.fetch)[1]
    /\ (/\ AboutToSleep
        /\ C14_NonEmpty(prev.fetch)
        /\ C14_NonEmpty(cur.fetch)
        /\ HomeworksOf(prev.fetch)[1] = HomeworksOf(cur.fetch)[1])
          => C14_Texts(prev) = C14_Texts(cur)

C14_Witness ==
    /\ pc = "sleep"
    /\ C14_NonEmpty(prev.fetch)
    /\ C14_NonEmpty(cur.fetch)
    /\ HomeworksOf(prev.fetch) = << [homework_name |-> "hw1", status |-> "reviewing"] >>
    /\ HomeworksOf(cur.fetch) = << [homework_name |-> "hw1", status |-> "reviewing"],
                                   [homework_name |-> "hw0", status |-> "rejected"] >>
    /\ cur.sends[1].text = prev.sends[1].text

(***************************************************************************)
(* C15.  The steps of a cycle run in the order fetch, validate,           *)
(* interpret, notify, sleep and cycles do not overlap: the calls of a     *)
(* cycle are in that order without repetition, a status-change message is *)
(* sent only after get_api_answer, check_response and parse_status have   *)
(* succeeded in that cycle, and a fetch starts only when the previous     *)
(* cycle has slept and nothing of a cycle is in progress.                  *)
(***************************************************************************)
C15_Rank(name) ==
    CASE name = "get_api_answer" -> 1
      [] name = "check_response" -> 2
      [] name = "parse_status" -> 3
      [] name = "send_message" -> 4
      [] name = "sleep" -> 5

C15_InOrder(calls) ==
    \A i, j \in DOMAIN calls : i < j => C15_Rank(calls[i]) < C15_Rank(calls[j])

C15_StatusSentAfterSuccess(c) ==
    StatusSends(c) # <<>>
        => /\ SubSeq(c.calls, 1, 4) = <<"get_api_answer", "check_response",
                                        "parse_status", "send_message">>
           /\ get_api_answer(c.fetch).ok
           /\ check_response(c.fetch.body).ok
           /\ parse_status(HomeworksOf(c.fetch)[1]).ok
           /\ c.sends[1].text = parse_status(HomeworksOf(c.fetch)[1]).value

C15_StrictSequence ==
    /\ C15_InOrder(cur.calls) /\ C15_InOrder(prev.calls)
    /\ C15_StatusSentAfterSuccess(cur) /\ C15_StatusSentAfterSuccess(prev)
    /\ pc = "get_api_answer" => cur = NoCycle
    /\ (pc = "get_api_answer" /\ cycle > 0)
          => prev.calls[1] = "get_api_answer" /\ Last(prev.calls) = "sleep"
    /\ (pc \in LoopPcs \ {"get_api_answer"}) => cur.calls[1] = "get_api_answer"
    /\ pc = "send_message" => Last(cur.calls) = "parse_status"
    /\ pc = "parse_status" => Last(cur.calls) = "check_response"
    /\ pc = "check_response" => Last(cur.calls) = "get_api_answer"
    /\ AboutToSleep => Last(cur.calls) = "send_message"

C15_Witness ==
    /\ pc = "get_api_answer"
    /\ cycle = 2
    /\ prev.calls = <<"get_api_answer", "check_response", "parse_status",
                      "send_message", "sleep">>
    /\ prev.sends[1].result = "ok"

(***************************************************************************)
(* C16.  Original statement: main's timestamp is created as the start-up  *)
(* time minus the look-back window and keeps that value; the from_date of *)
(* every fetch is the time of the call minus 40*86400 seconds.            *)
(***************************************************************************)
C16_FromDateIsNowMinusLookBack ==
    /\ cur.calls # <<>> => cur.fetch.from_date = now - 40 * 86400
    /\ prev.calls # <<>> => prev.fetch.from_date = now - RETRY_PERIOD - 40 * 86400
    /\ cur.calls # <<>>
          => cur.fetch.from_date = StartTime + (cycle - 1) * RETRY_PERIOD - 40 * 86400

C16_Original ==
    /\ pc \in LoopPcs => timestamp = StartTime - 40 * 86400
    /\ C16_FromDateIsNowMinusLookBack

(***************************************************************************)
(* C16, amended.  main's timestamp is created at start-up as the current  *)
(* time, with no look-back subtracted, and keeps that value through every *)
(* cycle; the from_date of every fetch is the time of the call minus      *)
(* 40*86400 seconds, whatever the timestamp is.                            *)
(***************************************************************************)
C16_Cursor ==
    /\ pc \in LoopPcs => timestamp = StartTime
    /\ pc \notin LoopPcs => timestamp = 0
    /\ C16_FromDateIsNowMinusLookBack

C16_Witness ==
    /\ cycle = 2
    /\ pc = "except"
    /\ timestamp = StartTime
    /\ cur.fetch.from_date = StartTime + RETRY_PERIOD - 3456000
    /\ prev.fetch.from_date = StartTime - 3456000

(***************************************************************************)
(* C17.  Every poll cycle makes exactly one send_message call: the        *)
(* status-change message from line 238 when get_api_answer,               *)
(* check_response and parse_status all succeeded, the fault message       *)
(* "Sboi v rabote programmy: <error>" from line 244 otherwise.            *)
(***************************************************************************)
C17_AllSucceeded(c) ==
    /\ get_api_answer(c.fetch).ok
    /\ check_response(c.fetch.body).ok
    /\ parse_status(HomeworksOf(c.fetch)[1]).ok

C17_TheOneSend(c) ==
    /\ Len(c.sends) = 1
    /\ IF C17_AllSucceeded(c)
       THEN /\ c.sends[1].line = 238
            /\ c.sends[1].text = parse_status(HomeworksOf(c.fetch)[1]).value
            /\ c.fault = ""
       ELSE /\ c.sends[1].line = 244
            /\ c.sends[1].text = c.fault
            /\ c.fault # ""

C17_OneSendPerCycle ==
    /\ Len(cur.sends) <= 1
    /\ AboutToSleep => C17_TheOneSend(cur)
    /\ pc = "except_sleep"
          => cur.sends[1].text = "Sboi v rabote programmy: " \o Str(error)
    /\ prev.calls # <<>> => C17_TheOneSend(prev)
    /\ (pc = "get_api_answer" /\ cycle > 0) => prev.calls # <<>>

C17_Witness ==
    /\ pc = "get_api_answer"
    /\ cycle = 2
    /\ prev.sends = << [line |-> 244,
                        text |-> "Sboi v rabote programmy: list index out of range",
                        result |-> "ok"] >>

(***************************************************************************)
(* C18.  The remote API is queried only from inside a poll cycle: no      *)
(* request has been issued while the process is before or out of the      *)
(* loop, and none at all when a credential is missing.                     *)
(***************************************************************************)
C18_RequestsOnlyInCycle ==
    /\ pc \notin LoopPcs => ~import_request
    /\ ~CredentialsPresent => ~import_request
====
